---- MODULE Spec2Model ----
(***************************************************************************)
(* Model of fourier's autosort prime-factor FFT backend                    *)
(* (src/fourier/src/autosort/prime_factor.rs): the planner Stages::new     *)
(* with num_factors and extend_twiddles, the stage driver apply_stages_*,  *)
(* and the engine PrimeFactor32/64 with its Cell-held scratch buffer.      *)
(* Complex samples and twiddles are symbolic: a radix kernel is an opaque  *)
(* function of its source buffer, a twiddle is the triple handed to        *)
(* compute_twiddle.                                                        *)
(***************************************************************************)
EXTENDS Integers, Sequences, FiniteSets, TLC

\* Largest transform length requested from create_f32 / create_f64.
MaxN == 12

\* Width of usize in the model (64 in the build); count wraps or traps at 2^UsizeBits.
UsizeBits == 4

UsizeMod == 2 ^ UsizeBits

\* Values of the width! {} macro (complex samples per vector) across targets.
Widths == {1, 2, 4}

\* The transform_in_place calls that may be active on one engine.
Calls == {"a", "b"}

VARIABLES
    size,               \* the length handed to create_* / Stages::new
    overflow_checks,    \* build profile: arithmetic overflow panics (debug) or wraps (release)
    width,              \* width! {} of the selected target
    ppc,                \* position inside Stages::new
    value,              \* num_factors: mut value
    count,              \* num_factors: mut count
    current_size,       \* Stages::new: mut current_size
    stages_size,        \* Stages::size (0 until a plan is built)
    stages,             \* Stages::stages
    forward_twiddles,   \* Stages::forward_twiddles
    reverse_twiddles,   \* Stages::reverse_twiddles
    work,               \* PrimeFactor::work, the content of the Cell
    pc,                 \* per call: position inside transform_in_place / apply_stages
    input,              \* per call: the caller's buffer
    orig,               \* per call: the caller's buffer as it was handed in
    forward,            \* per call: the forward argument
    wk,                 \* per call: the local `work` taken from the cell
    dsize,              \* per call: apply_stages `size`
    stride,             \* per call: apply_stages `stride`
    cursor,             \* per call: number of table entries the `twiddles` slice has dropped
    data_in_output,     \* per call: apply_stages `data_in_output`
    si,                 \* per call: index of the current entry of stages.stages
    iteration,          \* per call: iterations of the current stage already run
    kernels             \* per call: the radix kernel invocations made, in order

planner_vars == <<size, overflow_checks, width, ppc, value, count, current_size,
                  stages_size, stages, forward_twiddles, reverse_twiddles>>

call_vars == <<pc, input, orig, forward, wk, dsize, stride, cursor,
               data_in_output, si, iteration, kernels>>

vars == <<planner_vars, work, call_vars>>

----------------------------------------------------------------------------
\* Complex values

\* Complex::one()
One == <<"one">>

\* crate::twiddle::compute_twiddle(index, size, forward), kept symbolic
compute_twiddle(index, n, fwd) == <<"tw", index, n, fwd>>

\* A sample of a caller's fresh buffer: position idx, no kernel applied, not scaled.
Sample(i) == [idx |-> i, hist |-> <<>>, den |-> 1, divs |-> 0]

\* Complex::default()
ZeroSample == [idx |-> 0, hist |-> <<>>, den |-> 1, divs |-> 0]

\* A heap buffer: `id` names the allocation (0: the empty boxed slice, no storage).
Buffer(id, data) == [id |-> id, data |-> data]

\* Default::default() for Box<[Complex<T>]>
EmptyBox == Buffer(0, <<>>)

\* vec![Complex::default(); size].into_boxed_slice()
NewWork(n) == Buffer(1, [i \in 1..n |-> ZeroSample])

----------------------------------------------------------------------------
\* Planner

\* The factor num_factors is dividing by at each position of Stages::new.
FactorAt(p) == CASE p = "nf4" -> 4 [] p = "nf3" -> 3 [] p = "nf2" -> 2 [] OTHER -> 1

NextPpc(p) == CASE p = "nf4" -> "nf3" [] p = "nf3" -> "nf2" [] OTHER -> "check"

InNumFactors == ppc \in {"nf4", "nf3", "nf2"}

\* Variant of TwiddleBand: the root of unity is taken for the group count m, not subsize.
TwiddleBand_GroupCount(subsize, radix, fwd) ==
    LET m == subsize \div radix
    IN  [k \in 1..(m * radix) |->
            LET i == (k - 1) \div radix
                j == (k - 1) % radix
            IN  IF j = 0 THEN One ELSE compute_twiddle(i * j, m, fwd)]

\* One band of extend_twiddles: the pushes of one pass of `for _ in 0..iterations`.
TwiddleBand(subsize, radix, fwd) ==
    LET m == subsize \div radix
    IN  [k \in 1..(m * radix) |->
            LET i == (k - 1) \div radix
                j == (k - 1) % radix
            IN  IF j = 0 THEN One ELSE compute_twiddle(i * j, subsize, fwd)]

RECURSIVE extend_twiddles(_, _, _, _, _)
extend_twiddles(twiddles, subsize, radix, iterations, fwd) ==
    IF iterations = 0
    THEN twiddles
    ELSE extend_twiddles(twiddles \o TwiddleBand(subsize, radix, fwd),
                         subsize \div radix, radix, iterations - 1, fwd)

\* count += 1 on a usize
CountOverflows == count + 1 >= UsizeMod

\* Variant of NumFactorsLoop: `count = 1` where the code has `count += 1`.
NumFactorsLoop_CountOnce ==
    /\ InNumFactors
    /\ value % FactorAt(ppc) = 0
    /\ value' = value \div FactorAt(ppc)
    /\ count' = 1
    /\ UNCHANGED <<size, overflow_checks, width, ppc, current_size, stages_size, stages,
                   forward_twiddles, reverse_twiddles, work, call_vars>>

\* One pass of `while value % factor == 0` in num_factors.
NumFactorsLoop ==
    /\ InNumFactors
    /\ value % FactorAt(ppc) = 0
    /\ value' = value \div FactorAt(ppc)
    /\ IF CountOverflows
       THEN IF overflow_checks
            THEN ppc' = "panic" /\ count' = count
            ELSE ppc' = ppc /\ count' = 0
       ELSE ppc' = ppc /\ count' = count + 1
    /\ UNCHANGED <<size, overflow_checks, width, current_size, stages_size, stages,
                   forward_twiddles, reverse_twiddles, work, call_vars>>

\* Variant of NumFactorsReturn: the stage is pushed without the `if count > 0` test.
NumFactorsReturn_AlwaysPush ==
    /\ InNumFactors
    /\ value % FactorAt(ppc) # 0
    /\ stages' = Append(stages, <<FactorAt(ppc), count>>)
    /\ forward_twiddles' =
         extend_twiddles(forward_twiddles, current_size, FactorAt(ppc), count, TRUE)
    /\ reverse_twiddles' =
         extend_twiddles(reverse_twiddles, current_size, FactorAt(ppc), count, FALSE)
    /\ current_size' = value
    /\ ppc' = NextPpc(ppc)
    /\ count' = 0
    /\ UNCHANGED <<size, overflow_checks, width, value, stages_size, work, call_vars>>

\* num_factors returns (count, value); the block of Stages::new that called it runs.
NumFactorsReturn ==
    /\ InNumFactors
    /\ value % FactorAt(ppc) # 0
    /\ IF count > 0
       THEN /\ stages' = Append(stages, <<FactorAt(ppc), count>>)
            /\ forward_twiddles' =
                 extend_twiddles(forward_twiddles, current_size, FactorAt(ppc), count, TRUE)
            /\ reverse_twiddles' =
                 extend_twiddles(reverse_twiddles, current_size, FactorAt(ppc), count, FALSE)
       ELSE UNCHANGED <<stages, forward_twiddles, reverse_twiddles>>
    /\ current_size' = value
    /\ ppc' = NextPpc(ppc)
    /\ count' = 0
    /\ UNCHANGED <<size, overflow_checks, width, value, stages_size, work, call_vars>>

\* Variant of StagesResult: the residual factor is not tested.
StagesResult_NoResidualTest ==
    /\ ppc = "check"
    /\ ppc' = "some"
    /\ work' = NewWork(size)
    /\ stages_size' = size
    /\ UNCHANGED <<size, overflow_checks, width, value, count, current_size, stages,
                   forward_twiddles, reverse_twiddles, call_vars>>

\* `if current_size != 1 { None } else { Some(..) }`, then PrimeFactor::new and create_*.
StagesResult ==
    /\ ppc = "check"
    /\ IF current_size # 1
       THEN ppc' = "none" /\ work' = work /\ stages_size' = stages_size
       ELSE ppc' = "some" /\ work' = NewWork(size) /\ stages_size' = size
    /\ UNCHANGED <<size, overflow_checks, width, value, count, current_size, stages,
                   forward_twiddles, reverse_twiddles, call_vars>>

PlanNext == NumFactorsLoop \/ NumFactorsReturn \/ StagesResult

----------------------------------------------------------------------------
\* Stage driver and engine

\* Positions of a call that ended by a panic the caller may survive.
Panicked == {"assert_failed", "slice_oob", "unimplemented"}

\* Positions at which no transform_in_place call is running in the slot.
Resting == {"idle", "done"} \cup Panicked

\* The local `work` of a call that holds no buffer (before take, after set or unwinding).
NoWork == Buffer(-1, <<>>)

\* Lengths of the buffers callers hand to transform_in_place.
InputLens == {0, size, size + 1}

IterationsAt(c) == stages[si[c]][2]

RadixAt(c) == stages[si[c]][1]

\* The table apply_stages selects: forward_twiddles or reverse_twiddles.
Table(fwd) == IF fwd THEN forward_twiddles ELSE reverse_twiddles

\* The `twiddles` slice of a call: the selected table without its first `cursor` entries.
TwiddleSlice(c) ==
    SubSeq(Table(forward[c]), cursor[c] + 1, Len(Table(forward[c])))

\* get_twiddle = |i, j| *twiddles.get_unchecked(j * radix + i), as a 0-based index
TwiddleIndex(radix, i, j) == j * radix + i

\* The indices one kernel invocation reads: branch i of every group j of size / radix.
KernelReads(n, radix) ==
    {TwiddleIndex(radix, i, j) : i \in 0..(radix - 1), j \in 0..((n \div radix) - 1)}

\* An invocation of radix_<r>_<narrow|wide>(from, to, forward, size, stride, twiddles).
KernelCall(c, wide) ==
    [radix |-> RadixAt(c), size |-> dsize[c], stride |-> stride[c], wide |-> wide,
     fwd |-> forward[c], off |-> cursor[c]]

\* What a kernel leaves in `to`: an opaque function of `from`, one value per position.
KernelOutput(k, from, to) ==
    [i \in 1..Len(to) |->
        LET x == IF Len(from) > 0 THEN from[1] ELSE ZeroSample
        IN  [idx |-> IF x.idx = 0 THEN 0 ELSE i,
             hist |-> Append(x.hist, k),
             den |-> x.den,
             divs |-> x.divs]]

\* x / scale
Div(x, scale) == [x EXCEPT !.den = @ * scale, !.divs = @ + 1]

\* Variant of CursorAdvance: the slice advances by the divided size alone.
CursorAdvance_NoRadix(newsize, radix) == newsize

\* `twiddles = &twiddles[size * radix..]` keeps `advance` entries fewer.
CursorAdvance(newsize, radix) == newsize * radix

\* transform_in_place is entered with a buffer and a direction.
Call(c) ==
    /\ ppc = "some"
    /\ pc[c] \in Resting
    /\ \E len \in InputLens, fwd \in BOOLEAN :
          /\ input' = [input EXCEPT ![c] = [i \in 1..len |-> Sample(i)]]
          /\ orig' = [orig EXCEPT ![c] = [i \in 1..len |-> Sample(i)]]
          /\ forward' = [forward EXCEPT ![c] = fwd]
    /\ pc' = [pc EXCEPT ![c] = "take"]
    /\ kernels' = [kernels EXCEPT ![c] = <<>>]
    /\ UNCHANGED <<planner_vars, work, wk, dsize, stride, cursor, data_in_output,
                   si, iteration>>

\* Variant of CellTake: the cell keeps its value (a copy of the handle, not a move).
CellTake_Copy == [taken |-> work, left |-> work]

\* Cell::take: the value moves out, Default::default() stays in the cell.
CellTake == [taken |-> work, left |-> EmptyBox]

\* `let mut work = self.work.take();`
Take(c) ==
    /\ pc[c] = "take"
    /\ wk' = [wk EXCEPT ![c] = CellTake.taken]
    /\ work' = CellTake.left
    /\ pc' = [pc EXCEPT ![c] = "assert"]
    /\ UNCHANGED <<planner_vars, input, orig, forward, dsize, stride, cursor,
                   data_in_output, si, iteration, kernels>>

\* Variant of AssertsHold: only the first assertion.
AssertsHold_BuffersOnly(c) == Len(input[c]) = Len(wk[c].data)

\* assert_eq!(input.len(), output.len()); assert_eq!(stages.size, input.len());
AssertsHold(c) ==
    /\ Len(input[c]) = Len(wk[c].data)
    /\ stages_size = Len(input[c])

\* The two assertions of apply_stages, then its local initialisation; a failed
\* assertion unwinds through transform_in_place and drops the local `work`.
ApplyStagesEnter(c) ==
    /\ pc[c] = "assert"
    /\ IF AssertsHold(c)
       THEN /\ pc' = [pc EXCEPT ![c] = "stages"]
            /\ dsize' = [dsize EXCEPT ![c] = stages_size]
            /\ stride' = [stride EXCEPT ![c] = 1]
            /\ cursor' = [cursor EXCEPT ![c] = 0]
            /\ data_in_output' = [data_in_output EXCEPT ![c] = FALSE]
            /\ si' = [si EXCEPT ![c] = 1]
            /\ iteration' = [iteration EXCEPT ![c] = 0]
            /\ wk' = wk
       ELSE /\ pc' = [pc EXCEPT ![c] = "assert_failed"]
            /\ wk' = [wk EXCEPT ![c] = NoWork]
            /\ UNCHANGED <<dsize, stride, cursor, data_in_output, si, iteration>>
    /\ UNCHANGED <<planner_vars, work, input, orig, forward, kernels>>

\* The (from, to) choice by data_in_output.
FromBuf(c) == IF data_in_output[c] THEN wk[c].data ELSE input[c]

ToBuf(c) == IF data_in_output[c] THEN input[c] ELSE wk[c].data

\* One pass of either kernel loop: the kernel call, then size, stride, the slice,
\* the iteration count and the flag.
KernelStep(c, wide) ==
    LET radix == RadixAt(c)
        k == KernelCall(c, wide)
        out == KernelOutput(k, FromBuf(c), ToBuf(c))
        newsize == dsize[c] \div radix
    IN  IF radix \notin {2, 3, 4}
        THEN \* unimplemented!("unsupported radix")
             /\ pc' = [pc EXCEPT ![c] = "unimplemented"]
             /\ wk' = [wk EXCEPT ![c] = NoWork]
             /\ UNCHANGED <<input, dsize, stride, cursor, data_in_output, iteration, kernels>>
        ELSE IF \E r \in KernelReads(dsize[c], radix) : r >= Len(TwiddleSlice(c))
        THEN \* get_unchecked past the end of the slice: undefined behaviour
             /\ pc' = [pc EXCEPT ![c] = "ub"]
             /\ UNCHANGED <<input, wk, dsize, stride, cursor, data_in_output, iteration, kernels>>
        ELSE /\ kernels' = [kernels EXCEPT ![c] = Append(@, k)]
             /\ input' = IF data_in_output[c] THEN [input EXCEPT ![c] = out] ELSE input
             /\ dsize' = [dsize EXCEPT ![c] = newsize]
             /\ stride' = [stride EXCEPT ![c] = @ * radix]
             /\ IF CursorAdvance(newsize, radix) > Len(TwiddleSlice(c))
                THEN \* slice start index out of range: panic, `work` is dropped
                     /\ pc' = [pc EXCEPT ![c] = "slice_oob"]
                     /\ wk' = [wk EXCEPT ![c] = NoWork]
                     /\ UNCHANGED <<cursor, iteration, data_in_output>>
                ELSE /\ pc' = pc
                     /\ wk' = IF data_in_output[c]
                              THEN wk
                              ELSE [wk EXCEPT ![c] = Buffer(@.id, out)]
                     /\ cursor' = [cursor EXCEPT ![c] = @ + CursorAdvance(newsize, radix)]
                     /\ iteration' = [iteration EXCEPT ![c] = @ + 1]
                     /\ data_in_output' = [data_in_output EXCEPT ![c] = ~@]

InStage(c) == pc[c] = "stages" /\ si[c] <= Len(stages)

\* `while stride < width! {} && iteration < *iterations { radix_<r>_narrow(..) .. }`
RadixNarrow(c) ==
    /\ InStage(c)
    /\ stride[c] < width
    /\ iteration[c] < IterationsAt(c)
    /\ KernelStep(c, FALSE)
    /\ UNCHANGED <<planner_vars, work, orig, forward, si>>

\* `for _ in iteration..*iterations { radix_<r>_wide(..) .. }`: the narrow loop has
\* ended with stride >= width, and stride never decreases afterwards.
RadixWide(c) ==
    /\ InStage(c)
    /\ ~(stride[c] < width)
    /\ iteration[c] < IterationsAt(c)
    /\ KernelStep(c, TRUE)
    /\ UNCHANGED <<planner_vars, work, orig, forward, si>>

\* Both loops of the current stage are over: the next (radix, iterations) entry.
NextStage(c) ==
    /\ InStage(c)
    /\ iteration[c] >= IterationsAt(c)
    /\ si' = [si EXCEPT ![c] = @ + 1]
    /\ iteration' = [iteration EXCEPT ![c] = 0]
    /\ UNCHANGED <<planner_vars, work, pc, input, orig, forward, wk, dsize, stride,
                   cursor, data_in_output, kernels>>

\* Variant of CopyBack: the result is never copied out of the scratch buffer.
CopyBack_Never(c) == FALSE

\* Whether the tail of apply_stages copies from `output` into `input`.
CopyBack(c) == data_in_output[c]

\* Whether the tail of apply_stages divides by stages.size.
Scales(c) == ~forward[c]

\* The tail of apply_stages: copy_from_slice for forward, the two scaling loops otherwise.
FinalBuffer(c) ==
    LET src == IF CopyBack(c) THEN wk[c].data ELSE input[c]
    IN  [i \in 1..Len(src) |->
            IF Scales(c) THEN Div(src[i], stages_size) ELSE src[i]]

Finish(c) ==
    /\ pc[c] = "stages"
    /\ si[c] > Len(stages)
    /\ input' = [input EXCEPT ![c] = FinalBuffer(c)]
    /\ pc' = [pc EXCEPT ![c] = "set"]
    /\ UNCHANGED <<planner_vars, work, orig, forward, wk, dsize, stride, cursor,
                   data_in_output, si, iteration, kernels>>

\* `self.work.set(work);`, then transform_in_place returns.
Set(c) ==
    /\ pc[c] = "set"
    /\ work' = wk[c]
    /\ wk' = [wk EXCEPT ![c] = NoWork]
    /\ pc' = [pc EXCEPT ![c] = "done"]
    /\ UNCHANGED <<planner_vars, input, orig, forward, dsize, stride, cursor,
                   data_in_output, si, iteration, kernels>>

----------------------------------------------------------------------------
\* Specifications

Init ==
    /\ size \in 0..MaxN
    /\ overflow_checks \in BOOLEAN
    /\ width \in Widths
    /\ ppc = "nf4"
    /\ value = size
    /\ count = 0
    /\ current_size = size
    /\ stages_size = 0
    /\ stages = <<>>
    /\ forward_twiddles = <<>>
    /\ reverse_twiddles = <<>>
    /\ work = NoWork
    /\ pc = [c \in Calls |-> "idle"]
    /\ input = [c \in Calls |-> <<>>]
    /\ orig = [c \in Calls |-> <<>>]
    /\ forward = [c \in Calls |-> TRUE]
    /\ wk = [c \in Calls |-> NoWork]
    /\ dsize = [c \in Calls |-> 0]
    /\ stride = [c \in Calls |-> 0]
    /\ cursor = [c \in Calls |-> 0]
    /\ data_in_output = [c \in Calls |-> FALSE]
    /\ si = [c \in Calls |-> 0]
    /\ iteration = [c \in Calls |-> 0]
    /\ kernels = [c \in Calls |-> <<>>]

CallNext(c) ==
    \/ Call(c)
    \/ Take(c)
    \/ ApplyStagesEnter(c)
    \/ RadixNarrow(c)
    \/ RadixWide(c)
    \/ NextStage(c)
    \/ Finish(c)
    \/ Set(c)

Next == PlanNext \/ (\E c \in Calls : CallNext(c))

Spec == Init /\ [][Next]_vars

\* Construction alone, run to its end: the thread inside Stages::new keeps stepping.
PlanSpec == Init /\ [][PlanNext]_vars /\ WF_vars(PlanNext)

----------------------------------------------------------------------------
\* Properties

\* n = 2^a * 3^b, for a usize n (n < 2^UsizeBits bounds both exponents)
IsThreeSmooth(n) == \E a, b \in 0..UsizeBits : n = (2 ^ a) * (3 ^ b)

RECURSIVE StageProduct(_)
StageProduct(st) ==
    IF st = <<>> THEN 1 ELSE (Head(st)[1] ^ Head(st)[2]) * StageProduct(Tail(st))

RECURSIVE Sum(_)
Sum(seq) == IF seq = <<>> THEN 0 ELSE Head(seq) + Sum(Tail(seq))

\* The radix of every (stage, iteration) pair of a plan, in plan order.
RECURSIVE PlanRadices(_)
PlanRadices(st) ==
    IF st = <<>> THEN <<>>
    ELSE IF Head(st)[2] = 0 THEN PlanRadices(Tail(st))
    ELSE <<Head(st)[1]>> \o PlanRadices(<<<<Head(st)[1], Head(st)[2] - 1>>>> \o Tail(st))

\* The sub-size s of every (stage, iteration) pair of a plan for length n, in plan order.
RECURSIVE PlanSizes(_, _)
PlanSizes(st, n) ==
    IF st = <<>> THEN <<>>
    ELSE IF Head(st)[2] = 0 THEN PlanSizes(Tail(st), n)
    ELSE <<n>> \o PlanSizes(<<<<Head(st)[1], Head(st)[2] - 1>>>> \o Tail(st),
                            n \div Head(st)[1])

\* Two samples denote the same complex value.
SameValue(x, y) == x.idx = y.idx /\ x.hist = y.hist /\ x.den = y.den

\* A kernel invocation is the next step of call c.
KernelPending(c) == InStage(c) /\ iteration[c] < IterationsAt(c)

\* Calls inside apply_stages past its assertions.
InDriver(c) == pc[c] \in {"stages", "set"}

\* C1: for N >= 1, construction returns an engine exactly when N = 2^a * 3^b, and
\* returns None (no engine, no panic) for every other N.
C1_EngineIffThreeSmooth ==
    size >= 1 =>
        /\ ppc # "panic"
        /\ ppc = "some" => (IsThreeSmooth(size) /\ Len(work.data) \in {0, size})
        /\ ppc = "none" => (~IsThreeSmooth(size) /\ work = NoWork)

C1_Witness == ppc = "none" /\ size = 10

\* C2: for every plan Stages::new returns, the product of radix^iterations over the
\* stage list equals N and the plan's size field equals N.
C2_StageProduct ==
    ppc = "some" => (StageProduct(stages) = size /\ stages_size = size)

C2_Witness == ppc = "some" /\ size = 12 /\ stages = <<<<4, 1>>, <<3, 1>>>>

\* C3: Stages::new terminates for every length, N = 0 included, with Some or None
\* and never with a panic.
C3_ConstructionTerminates == <>(ppc \in {"some", "none"})

\* C4: a completed transform_in_place leaves in the caller's buffer the output of the
\* last kernel of the chain K_n(..K_1(input)), one kernel per (stage, iteration) in plan
\* order, copied back from scratch exactly when n is odd, unscaled for forward and
\* divided by N exactly once for inverse.
C4_ResultOfKernelChain ==
    \A c \in Calls :
        pc[c] \in {"set", "done"} =>
            LET ks == kernels[c]
                n == Len(ks)
            IN  /\ [i \in 1..n |-> ks[i].radix] = PlanRadices(stages)
                /\ \A i \in 1..n : ks[i].fwd = forward[c]
                /\ CopyBack(c) = (n % 2 = 1)
                /\ Len(input[c]) = size
                /\ \A i \in 1..size :
                      input[c][i] = [idx |-> i, hist |-> ks,
                                     den |-> IF forward[c] THEN 1 ELSE size,
                                     divs |-> IF forward[c] THEN 0 ELSE 1]

C4_Witness ==
    /\ pc["a"] = "done"
    /\ ~forward["a"]
    /\ size = 12
    /\ Len(kernels["a"]) = 2
    /\ ~CopyBack("a")
    /\ input["a"][1].den = 12

\* C5: for N = 1 the stage list and both tables are empty, no kernel runs, and the
\* single sample keeps its value in both directions (the inverse divides by 1).
C5_LengthOneIdentity ==
    (ppc = "some" /\ size = 1) =>
        /\ stages = <<>>
        /\ forward_twiddles = <<>>
        /\ reverse_twiddles = <<>>
        /\ \A c \in Calls :
              /\ kernels[c] = <<>>
              /\ pc[c] \in {"set", "done"} =>
                    /\ Len(input[c]) = 1
                    /\ SameValue(input[c][1], orig[c][1])
                    /\ input[c][1].divs = IF forward[c] THEN 0 ELSE 1

C5_Witness == size = 1 /\ pc["a"] = "done" /\ ~forward["a"] /\ input["a"][1].divs = 1

\* C6: a call whose buffer length differs from N gets no further than the assertions
\* of apply_stages, where it fails; no kernel has run and no sample has changed.
C6_MismatchAsserts ==
    \A c \in Calls :
        (pc[c] # "idle" /\ Len(orig[c]) # size) =>
            /\ pc[c] \in {"take", "assert", "assert_failed"}
            /\ input[c] = orig[c]
            /\ kernels[c] = <<>>

C6_Witness == pc["a"] = "assert_failed" /\ Len(orig["a"]) = size + 1 /\ size = 4

\* C7: both tables hold exactly one entry per unit of sub-size of every (stage,
\* iteration) pair; the driver's cursor advances by that sub-size at every kernel, never
\* slices past the end, and after the last stage the slice is empty with size 1 and
\* stride N.
C7_TableMatchesDriver ==
    ppc = "some" =>
        /\ Len(forward_twiddles) = Sum(PlanSizes(stages, size))
        /\ Len(reverse_twiddles) = Sum(PlanSizes(stages, size))
        /\ \A c \in Calls :
              /\ pc[c] \notin {"slice_oob", "ub"}
              /\ InDriver(c) =>
                    LET n == Len(kernels[c])
                        sizes == PlanSizes(stages, size)
                    IN  /\ n <= Len(sizes)
                        /\ cursor[c] = Sum(SubSeq(sizes, 1, n))
                        /\ cursor[c] <= Len(Table(forward[c]))
                        /\ \A i \in 1..n :
                              /\ kernels[c][i].size = sizes[i]
                              /\ kernels[c][i].off = Sum(SubSeq(sizes, 1, i - 1))
                        /\ si[c] > Len(stages) =>
                              /\ TwiddleSlice(c) = <<>>
                              /\ dsize[c] = 1
                              /\ stride[c] = size

C7_Witness ==
    /\ pc["a"] = "stages"
    /\ si["a"] > Len(stages)
    /\ size = 12
    /\ ~forward["a"]
    /\ cursor["a"] = 15

\* C8: at every kernel invocation with size s and radix r, each index g*r + b that
\* get_twiddle reads lies inside the slice, and the entry is the identity for b = 0 and
\* compute_twiddle(g*b, s, direction) otherwise, from the table of the call's direction.
C8_KernelTwiddles ==
    \A c \in Calls :
        /\ pc[c] # "ub"
        /\ KernelPending(c) =>
              LET s == dsize[c]
                  r == RadixAt(c)
                  tw == TwiddleSlice(c)
              IN  \A g \in 0..((s \div r) - 1), b \in 0..(r - 1) :
                      LET ix == TwiddleIndex(r, b, g)
                      IN  /\ ix = g * r + b
                          /\ ix < Len(tw)
                          /\ tw[ix + 1] = IF b = 0 THEN One
                                          ELSE compute_twiddle(g * b, s, forward[c])

C8_Witness ==
    /\ KernelPending("a")
    /\ size = 12
    /\ RadixAt("a") = 4
    /\ dsize["a"] = 12
    /\ ~forward["a"]
    /\ TwiddleSlice("a")[TwiddleIndex(4, 3, 2) + 1] = compute_twiddle(6, 12, FALSE)

\* C9: whenever no transform_in_place call is in progress, also after a call that
\* failed its length assertion, the engine's work cell holds a buffer of length N.
C9_WorkKeepsLength ==
    (ppc = "some" /\ \A c \in Calls : pc[c] \in Resting) => Len(work.data) = size

\* C10: the length-N scratch storage has at most one holder among the cell and the
\* calls; a call that takes while another holds it gets the empty placeholder, and two
\* calls are never both inside the stage driver.
C10_OneScratchUser ==
    /\ Cardinality({c \in Calls : wk[c].id = 1}) + (IF work.id = 1 THEN 1 ELSE 0) <= 1
    /\ \A c, d \in Calls :
          (c # d /\ wk[c].id = 1 /\ pc[d] \in {"assert", "stages", "set"}) =>
              (wk[d] = EmptyBox /\ pc[d] = "assert")
    /\ \A c \in Calls : InDriver(c) => (wk[c].id = 1 /\ Len(wk[c].data) = size)

C10_Witness ==
    /\ pc["a"] = "stages"
    /\ wk["a"].id = 1
    /\ pc["b"] = "assert"
    /\ wk["b"] = EmptyBox

====
